---- MODULE Spec2Model ----
(***************************************************************************)
(* The PXE API control core of src/interface/pxe/pxe.c: the stack state    *)
(* machine (ensure_pxe_state, pxe_initialise_nic, pxe_shutdown_nic) and    *)
(* the API call dispatcher (pxe_api_call).                                 *)
(*                                                                         *)
(* hook_pxe_stack / unhook_pxe_stack, the creation of pxe_stack and the    *)
(* pxenv_* handlers live outside pxe.c; they are modelled from their       *)
(* documented contracts.                                                   *)
(***************************************************************************)
EXTENDS Integers, Sequences, FiniteSets, TLC

VARIABLES
    pxe_stack,  \* the global pointer: NULL or STACK
    state,      \* pxe_stack->state (meaningful while pxe_stack # NULL)
    hooked,     \* are INT 1A / INT 15 really hooked?
    last,       \* record of the most recent call and what it did
    prev        \* summary of the ensure_pxe_state call right before `last`

vars == <<pxe_stack, state, hooked, last, prev>>

\* ------------------------------------------------------------------------
\* Vocabulary
\* ------------------------------------------------------------------------

\* pxe_stack_state_t, in rank order
CAN_UNLOAD == 0
MIDWAY == 1
READY == 2
States == {CAN_UNLOAD, MIDWAY, READY}

NULL == "NULL"
STACK == "STACK"

PXENV_EXIT_SUCCESS == "PXENV_EXIT_SUCCESS"
PXENV_EXIT_FAILURE == "PXENV_EXIT_FAILURE"
\* any raw exit value that is neither of the two above (traced as " ??")
EXIT_OTHER == "EXIT_OTHER"
ExitValues == {PXENV_EXIT_SUCCESS, PXENV_EXIT_FAILURE, EXIT_OTHER}

PXENV_STATUS_SUCCESS == "PXENV_STATUS_SUCCESS"
PXENV_STATUS_FAILURE == "PXENV_STATUS_FAILURE"
PXENV_STATUS_UNSUPPORTED == "PXENV_STATUS_UNSUPPORTED"
PXENV_STATUS_UNDI_INVALID_STATE == "PXENV_STATUS_UNDI_INVALID_STATE"

\* number of opcodes outside the switch that the model feeds the dispatcher
NumUnknownOpcodes == 2

\* largest int a hook/unhook step is let to return where any non-zero
\* result counts as success
MaxStepResult == 2

\* bitwise & on non-negative ints, as `success & step()` computes it
RECURSIVE BitAnd(_, _)
BitAnd(a, b) ==
    IF a = 0 \/ b = 0 THEN 0
    ELSE (a % 2) * (b % 2) + 2 * BitAnd(a \div 2, b \div 2)

\* ------------------------------------------------------------------------
\* The stack state machine.  A world w is
\*   [pxe_stack, state, hooked, probe, trace, rets]
\* where trace lists, in order, every routine entered and every provider
\* operation performed during the current call, rets lists what each step
\* of ensure_pxe_state returned with the state before and after it, and
\* probe is what eth_probe would report (PROBE_WORKED or not) if asked.
\* A step returns [w |-> the world after it, ret |-> its int result].
\* ------------------------------------------------------------------------

Log(w, ev) == [w EXCEPT !.trace = Append(@, ev)]

\* hook_pxe_stack (pxe_callbacks.c): idempotent; `res` is the outcome of
\* installing the vectors when they have to be installed.
hook_pxe_stack(w, res) ==
    LET w1 == Log(w, "hook_pxe_stack") IN
    IF w1.state >= MIDWAY THEN [w |-> w1, ret |-> 1]
    ELSE IF res # 0
         THEN [w |-> [Log(w1, "install_vectors")
                        EXCEPT !.hooked = TRUE, !.state = MIDWAY],
               ret |-> res]
         ELSE [w |-> w1, ret |-> 0]

\* unhook_pxe_stack (pxe_callbacks.c): idempotent; `res` is the outcome of
\* restoring the vectors when they have to be restored.
unhook_pxe_stack(w, res) ==
    LET w1 == Log(w, "unhook_pxe_stack") IN
    IF w1.state <= CAN_UNLOAD THEN [w |-> w1, ret |-> 1]
    ELSE IF res # 0
         THEN [w |-> [Log(w1, "remove_vectors")
                        EXCEPT !.hooked = FALSE, !.state = CAN_UNLOAD],
               ret |-> res]
         ELSE [w |-> w1, ret |-> 0]

\* A pxe_initialise_nic that reports failure when the NIC is already up.
pxe_initialise_nic_refuses_ready(w) ==
    LET w1 == Log(w, "pxe_initialise_nic") IN
    IF w1.state >= READY THEN [w |-> w1, ret |-> 0]
    ELSE [w |-> [w1 EXCEPT !.state = READY], ret |-> 1]

\* A pxe_initialise_nic that returns 1 without recording READY.
pxe_initialise_nic_never_ready(w) ==
    [w |-> Log(w, "pxe_initialise_nic"), ret |-> 1]

\* pxe_initialise_nic: the probing block is compiled out (#if 0), so what
\* remains is the early return and the unconditional state = READY.
pxe_initialise_nic(w) ==
    LET w1 == Log(w, "pxe_initialise_nic") IN
    IF w1.state >= READY THEN [w |-> w1, ret |-> 1]
    ELSE [w |-> [w1 EXCEPT !.state = READY], ret |-> 1]

\* A pxe_shutdown_nic that disables the device but forgets to record MIDWAY.
pxe_shutdown_nic_keeps_state(w) ==
    LET w1 == Log(w, "pxe_shutdown_nic") IN
    IF w1.state <= MIDWAY THEN [w |-> w1, ret |-> 1]
    ELSE [w |-> Log(Log(w1, "eth_irq_DISABLE"), "disable_dev"), ret |-> 1]

\* A pxe_shutdown_nic whose early return tests state < MIDWAY.
pxe_shutdown_nic_strict_guard(w) ==
    LET w1 == Log(w, "pxe_shutdown_nic") IN
    IF w1.state < MIDWAY THEN [w |-> w1, ret |-> 1]
    ELSE [w |-> [Log(Log(w1, "eth_irq_DISABLE"), "disable_dev")
                   EXCEPT !.state = MIDWAY],
          ret |-> 1]

\* A pxe_shutdown_nic without its early return.
pxe_shutdown_nic_unguarded(w) ==
    LET w1 == Log(w, "pxe_shutdown_nic") IN
    [w |-> [Log(Log(w1, "eth_irq_DISABLE"), "disable_dev")
              EXCEPT !.state = MIDWAY],
     ret |-> 1]

pxe_shutdown_nic(w) ==
    LET w1 == Log(w, "pxe_shutdown_nic") IN
    IF w1.state <= MIDWAY THEN [w |-> w1, ret |-> 1]
    ELSE [w |-> [Log(Log(w1, "eth_irq_DISABLE"), "disable_dev")
                   EXCEPT !.state = MIDWAY],
          ret |-> 1]

\* The three conditional steps of ensure_pxe_state, each `success & step()`.
\* A step that is not selected leaves the world and `success` alone.
\* success = success & step(): r is the call so far, s the step just run
Combine(r, step, s) ==
    [w |-> [s.w EXCEPT !.rets = Append(@, [step |-> step, ret |-> s.ret,
                                           before |-> r.w.state,
                                           after |-> s.w.state])],
     ret |-> BitAnd(r.ret, s.ret)]

StepHook(r, wanted, hookres) ==
    IF wanted >= MIDWAY
    THEN Combine(r, "hook_pxe_stack", hook_pxe_stack(r.w, hookres))
    ELSE r

StepNic(r, wanted) ==
    IF wanted > MIDWAY
    THEN Combine(r, "pxe_initialise_nic", pxe_initialise_nic(r.w))
    ELSE Combine(r, "pxe_shutdown_nic", pxe_shutdown_nic(r.w))

StepUnhook(r, wanted, unhookres) ==
    IF wanted < MIDWAY
    THEN Combine(r, "unhook_pxe_stack", unhook_pxe_stack(r.w, unhookres))
    ELSE r

\* An ensure_pxe_state that hooks only on the way to READY.
ensure_pxe_state_hook_only_for_ready(w, wanted, hookres, unhookres) ==
    IF w.pxe_stack = NULL THEN [w |-> w, ret |-> 0]
    ELSE LET r0 == [w |-> w, ret |-> 1]
             r1 == IF wanted > MIDWAY THEN StepHook(r0, wanted, hookres)
                                      ELSE r0
         IN StepUnhook(StepNic(r1, wanted), wanted, unhookres)

\* An ensure_pxe_state that assigns success = step() instead of combining.
ensure_pxe_state_last_step_wins(w, wanted, hookres, unhookres) ==
    IF w.pxe_stack = NULL THEN [w |-> w, ret |-> 0]
    ELSE LET r == StepUnhook(StepNic(StepHook([w |-> w, ret |-> 1],
                                              wanted, hookres),
                                     wanted),
                             wanted, unhookres)
         IN [r EXCEPT !.ret = r.w.rets[Len(r.w.rets)].ret]

\* An ensure_pxe_state whose shutdown branch is `else if ( wanted < MIDWAY )`.
ensure_pxe_state_else_if(w, wanted, hookres, unhookres) ==
    IF w.pxe_stack = NULL THEN [w |-> w, ret |-> 0]
    ELSE LET r1 == StepHook([w |-> w, ret |-> 1], wanted, hookres)
             r2 == IF wanted = MIDWAY THEN r1 ELSE StepNic(r1, wanted)
         IN StepUnhook(r2, wanted, unhookres)

\* An ensure_pxe_state that unhooks before it shuts the NIC down.
ensure_pxe_state_unhook_first(w, wanted, hookres, unhookres) ==
    IF w.pxe_stack = NULL THEN [w |-> w, ret |-> 0]
    ELSE LET r1 == StepHook([w |-> w, ret |-> 1], wanted, hookres)
         IN StepNic(StepUnhook(r1, wanted, unhookres), wanted)

\* An ensure_pxe_state without the NULL check in front.
ensure_pxe_state_no_guard(w, wanted, hookres, unhookres) ==
    StepUnhook(StepNic(StepHook([w |-> w, ret |-> 1], wanted, hookres),
                       wanted),
               wanted, unhookres)

\* An ensure_pxe_state that combines with && (stops at the first failure).
ensure_pxe_state_short_circuit(w, wanted, hookres, unhookres) ==
    IF w.pxe_stack = NULL THEN [w |-> w, ret |-> 0]
    ELSE LET r1 == StepHook([w |-> w, ret |-> 1], wanted, hookres)
             r2 == IF r1.ret = 0 THEN r1 ELSE StepNic(r1, wanted)
             r3 == IF r2.ret = 0 THEN r2 ELSE StepUnhook(r2, wanted, unhookres)
         IN r3

\* An ensure_pxe_state whose NIC branch tests wanted >= MIDWAY.
ensure_pxe_state_off_by_one(w, wanted, hookres, unhookres) ==
    IF w.pxe_stack = NULL THEN [w |-> w, ret |-> 0]
    ELSE LET r1 == StepHook([w |-> w, ret |-> 1], wanted, hookres)
             r2 == IF wanted >= MIDWAY
                   THEN Combine(r1, "pxe_initialise_nic",
                                pxe_initialise_nic(r1.w))
                   ELSE Combine(r1, "pxe_shutdown_nic",
                                pxe_shutdown_nic(r1.w))
         IN StepUnhook(r2, wanted, unhookres)

ensure_pxe_state(w, wanted, hookres, unhookres) ==
    IF w.pxe_stack = NULL THEN [w |-> w, ret |-> 0]
    ELSE StepUnhook(StepNic(StepHook([w |-> w, ret |-> 1], wanted, hookres),
                            wanted),
                    wanted, unhookres)

\* ------------------------------------------------------------------------
\* The API call dispatcher
\* ------------------------------------------------------------------------

\* The switch of pxe_api_call: <<case label, routine it hands off to>>
Registry ==
    {
      <<"PXENV_START_UNDI", "pxenv_start_undi">>,
      <<"PXENV_UNDI_STARTUP", "pxenv_undi_startup">>,
      <<"PXENV_UNDI_CLEANUP", "pxenv_undi_cleanup">>,
      <<"PXENV_UNDI_INITIALIZE", "pxenv_undi_initialize">>,
      <<"PXENV_UNDI_RESET_ADAPTER", "pxenv_undi_reset_adapter">>,
      <<"PXENV_UNDI_SHUTDOWN", "pxenv_undi_shutdown">>,
      <<"PXENV_UNDI_OPEN", "pxenv_undi_open">>,
      <<"PXENV_UNDI_CLOSE", "pxenv_undi_close">>,
      <<"PXENV_UNDI_TRANSMIT", "pxenv_undi_transmit">>,
      <<"PXENV_UNDI_SET_MCAST_ADDRESS", "pxenv_undi_set_mcast_address">>,
      <<"PXENV_UNDI_SET_STATION_ADDRESS", "pxenv_undi_set_station_address">>,
      <<"PXENV_UNDI_SET_PACKET_FILTER", "pxenv_undi_set_packet_filter">>,
      <<"PXENV_UNDI_GET_INFORMATION", "pxenv_undi_get_information">>,
      <<"PXENV_UNDI_GET_STATISTICS", "pxenv_undi_get_statistics">>,
      <<"PXENV_UNDI_CLEAR_STATISTICS", "pxenv_undi_clear_statistics">>,
      <<"PXENV_UNDI_INITIATE_DIAGS", "pxenv_undi_initiate_diags">>,
      <<"PXENV_UNDI_FORCE_INTERRUPT", "pxenv_undi_force_interrupt">>,
      <<"PXENV_UNDI_GET_MCAST_ADDRESS", "pxenv_undi_get_mcast_address">>,
      <<"PXENV_UNDI_GET_NIC_TYPE", "pxenv_undi_get_nic_type">>,
      <<"PXENV_UNDI_GET_IFACE_INFO", "pxenv_undi_get_iface_info">>,
      <<"PXENV_UNDI_ISR", "pxenv_undi_isr">>,
      <<"PXENV_STOP_UNDI", "pxenv_stop_undi">>,
      <<"PXENV_TFTP_OPEN", "pxenv_tftp_open">>,
      <<"PXENV_TFTP_CLOSE", "pxenv_tftp_close">>,
      <<"PXENV_TFTP_READ", "pxenv_tftp_read">>,
      <<"PXENV_TFTP_READ_FILE", "pxenv_tftp_read_file">>,
      <<"PXENV_TFTP_GET_FSIZE", "pxenv_tftp_get_fsize">>,
      <<"PXENV_UDP_OPEN", "pxenv_udp_open">>,
      <<"PXENV_UDP_CLOSE", "pxenv_udp_close">>,
      <<"PXENV_UDP_READ", "pxenv_udp_read">>,
      <<"PXENV_UDP_WRITE", "pxenv_udp_write">>,
      <<"PXENV_UNLOAD_STACK", "pxenv_unload_stack">>,
      <<"PXENV_GET_CACHED_INFO", "pxenv_get_cached_info">>,
      <<"PXENV_RESTART_TFTP", "pxenv_restart_tftp">>,
      <<"PXENV_START_BASE", "pxenv_start_base">>,
      <<"PXENV_STOP_BASE", "pxenv_stop_base">>
    }

RegisteredOpcodes == {p[1] : p \in Registry}

\* opcodes that hit the default: arm
UnknownPool ==
    <<"PXENV_UNKNOWN_ffff", "PXENV_UNKNOWN_0016", "PXENV_UNKNOWN_0074",
      "PXENV_UNKNOWN_00ff">>
UnknownOpcodes == {UnknownPool[i] : i \in 1..NumUnknownOpcodes}

Opcodes == RegisteredOpcodes \cup UnknownOpcodes

\* the switch as a lookup table
HandlerTable ==
    [o \in RegisteredOpcodes |-> (CHOOSE p \in Registry : p[1] = o)[2]]

HandlerFor(opcode) == HandlerTable[opcode]

NoHandler == "none"
NoWrite == "no_write"

\* What a pxenv_* routine may do with the envelope and the stack.
\*   kind "stub":   never calls ensure_pxe_state; writes Status `write`
\*                  (or leaves it alone) and returns `ret`.
\*   kind "ensure": the ENSURE_XXX() pattern: calls ensure_pxe_state(wanted);
\*                  on failure sets PXENV_STATUS_UNDI_INVALID_STATE and
\*                  returns PXENV_EXIT_FAILURE, otherwise goes on to use
\*                  the hardware, write `write` and return `ret`.
StubBehaviours ==
    [kind : {"stub"}, wanted : {CAN_UNLOAD}, hookres : {1}, unhookres : {1},
     probe : {1}, write : {NoWrite, PXENV_STATUS_SUCCESS}, ret : ExitValues]

StepResults == {0, 1}

\* the provider outcomes that matter to ensure_pxe_state(wanted): what
\* installing / restoring the vectors returns, and whether probing for the
\* NIC would work
ProviderOutcomes(wanted) ==
    [hookres : IF wanted >= MIDWAY THEN StepResults ELSE {1},
     unhookres : IF wanted < MIDWAY THEN StepResults ELSE {1},
     probe : IF wanted > MIDWAY THEN StepResults ELSE {1}]

EnsureBehaviours ==
    {[kind |-> "ensure", wanted |-> wanted, hookres |-> o.hookres,
      unhookres |-> o.unhookres, probe |-> o.probe,
      write |-> PXENV_STATUS_SUCCESS, ret |-> PXENV_EXIT_SUCCESS] :
        wanted \in States, o \in UNION {ProviderOutcomes(x) : x \in States}}

HandlerBehaviours ==
    StubBehaviours \cup
    {b \in EnsureBehaviours :
        [hookres |-> b.hookres, unhookres |-> b.unhookres,
         probe |-> b.probe] \in ProviderOutcomes(b.wanted)}

\* One pxenv_* routine run on the envelope whose Status is `status`.
pxenv_handler(w, name, status, h) ==
    LET w1 == Log(w, name) IN
    IF h.kind = "stub"
    THEN [w |-> w1,
          Status |-> IF h.write = NoWrite THEN status ELSE h.write,
          ret |-> h.ret, entry_status |-> status,
          wrote |-> h.write # NoWrite, ens_ret |-> -1]
    ELSE LET e == ensure_pxe_state([w1 EXCEPT !.probe = h.probe],
                                   h.wanted, h.hookres, h.unhookres) IN
         IF e.ret = 0
         THEN [w |-> e.w, Status |-> PXENV_STATUS_UNDI_INVALID_STATE,
               ret |-> PXENV_EXIT_FAILURE, entry_status |-> status,
               wrote |-> TRUE, ens_ret |-> e.ret]
         ELSE [w |-> Log(e.w, "use_hardware"), Status |-> h.write,
               ret |-> h.ret, entry_status |-> status, wrote |-> TRUE,
               ens_ret |-> e.ret]

\* what the default: arm yields
Unsupported(w, status) ==
    [w |-> w, Status |-> status, ret |-> PXENV_EXIT_FAILURE,
     entry_status |-> status, wrote |-> FALSE, ens_ret |-> -1,
     handler |-> NoHandler, handler_ret |-> PXENV_EXIT_FAILURE,
     handler_status |-> status]

\* what a case arm yields: ret = pxenv_xxx ( &any->xxx )
HandOff(w, opcode, status, h) ==
    LET name == HandlerFor(opcode)
        r == pxenv_handler(w, name, status, h)
    IN [w |-> r.w, Status |-> r.Status, ret |-> r.ret,
        entry_status |-> r.entry_status, wrote |-> r.wrote,
        ens_ret |-> r.ens_ret, handler |-> name, handler_ret |-> r.ret,
        handler_status |-> r.Status]

\* A pxe_api_call that does not preset any->Status.
pxe_api_call_no_default(w, opcode, status_in, h) ==
    IF opcode \in RegisteredOpcodes
    THEN HandOff(w, opcode, status_in, h)
    ELSE Unsupported(w, PXENV_STATUS_UNSUPPORTED)

\* A pxe_api_call that turns every exit other than FAILURE into SUCCESS.
pxe_api_call_normalises_exit(w, opcode, status_in, h) ==
    IF opcode \in RegisteredOpcodes
    THEN LET r == HandOff(w, opcode, PXENV_STATUS_FAILURE, h)
         IN [r EXCEPT !.ret = IF @ = PXENV_EXIT_FAILURE
                                THEN PXENV_EXIT_FAILURE
                                ELSE PXENV_EXIT_SUCCESS]
    ELSE Unsupported(w, PXENV_STATUS_UNSUPPORTED)

\* A pxe_api_call whose default: arm forgets any->Status.
pxe_api_call_unknown_keeps_default(w, opcode, status_in, h) ==
    IF opcode \in RegisteredOpcodes
    THEN HandOff(w, opcode, PXENV_STATUS_FAILURE, h)
    ELSE Unsupported(w, PXENV_STATUS_FAILURE)

\* A pxe_api_call whose PXENV_UDP_READ arm lacks its break and falls
\* through into the PXENV_UDP_WRITE arm.
pxe_api_call_missing_break(w, opcode, status_in, h) ==
    IF opcode \in RegisteredOpcodes
    THEN LET r1 == HandOff(w, opcode, PXENV_STATUS_FAILURE, h)
         IN IF opcode = "PXENV_UDP_READ"
            THEN HandOff(r1.w, "PXENV_UDP_WRITE", r1.Status, h)
            ELSE r1
    ELSE Unsupported(w, PXENV_STATUS_UNSUPPORTED)

\* A pxe_api_call whose default: arm shuts the NIC down.
pxe_api_call_unknown_shuts_down(w, opcode, status_in, h) ==
    IF opcode \in RegisteredOpcodes
    THEN HandOff(w, opcode, PXENV_STATUS_FAILURE, h)
    ELSE Unsupported([w EXCEPT !.state = IF @ > MIDWAY THEN MIDWAY ELSE @],
                     PXENV_STATUS_UNSUPPORTED)

\* A pxe_api_call that sets the default Status after the switch.
pxe_api_call_default_after_switch(w, opcode, status_in, h) ==
    IF opcode \in RegisteredOpcodes
    THEN [HandOff(w, opcode, status_in, h)
            EXCEPT !.Status = PXENV_STATUS_FAILURE]
    ELSE Unsupported(w, PXENV_STATUS_FAILURE)

\* pxe_api_call ( opcode, any ): any->Status = PXENV_STATUS_FAILURE, then
\* the switch.  The DBG tracing after the switch changes nothing.
pxe_api_call(w, opcode, status_in, h) ==
    IF opcode \in RegisteredOpcodes
    THEN HandOff(w, opcode, PXENV_STATUS_FAILURE, h)
    ELSE Unsupported(w, PXENV_STATUS_UNSUPPORTED)

\* ------------------------------------------------------------------------
\* State machine
\* ------------------------------------------------------------------------

World == [pxe_stack |-> pxe_stack, state |-> state, hooked |-> hooked,
          probe |-> 1, trace |-> <<>>, rets |-> <<>>]

\* the shape of `last`
Call(op) ==
    [op |-> op, wanted |-> -1, hookres |-> 1, unhookres |-> 1,
     pre_stack |-> pxe_stack, pre_state |-> state, pre_hooked |-> hooked,
     probe |-> 1, ret |-> -1, trace |-> <<>>, rets |-> <<>>,
     opcode |-> "", status_in |-> "", entry_status |-> "", wrote |-> FALSE,
     handler |-> NoHandler, handler_ret |-> "", handler_status |-> "",
     Status |-> "", exit |-> "", ens_ret |-> -1]

NoPrev == [op |-> "none", wanted |-> -1, ret |-> -1, state |-> -1, ok |-> FALSE]

\* what `prev` keeps of a direct ensure_pxe_state call
Summary(c, st) ==
    IF c.op = "ensure"
    THEN [op |-> "ensure", wanted |-> c.wanted, ret |-> c.ret, state |-> st,
          ok |-> c.hookres = 1 /\ c.unhookres = 1]
    ELSE NoPrev

\* pxe_stack_t *pxe_stack = NULL
Init ==
    /\ pxe_stack = NULL
    /\ state = CAN_UNLOAD
    /\ hooked = FALSE
    /\ last = Call("none")
    /\ prev = NoPrev

\* the owner of the stack installs it (pxe_callbacks.c): a fresh stack is
\* in state CAN_UNLOAD
install_pxe_stack ==
    /\ pxe_stack = NULL
    /\ pxe_stack' = STACK
    /\ state' = CAN_UNLOAD
    /\ UNCHANGED hooked
    /\ last' = Call("install")
    /\ prev' = NoPrev

\* the owner removes the stack once it can be unloaded
remove_pxe_stack ==
    /\ pxe_stack = STACK
    /\ state = CAN_UNLOAD
    /\ pxe_stack' = NULL
    /\ UNCHANGED <<state, hooked>>
    /\ last' = Call("remove")
    /\ prev' = NoPrev

\* one run of ensure_pxe_state ( wanted ) under the provider outcomes o
do_ensure_pxe_state(wanted, o) ==
        \E r \in {ensure_pxe_state([World EXCEPT !.probe = o.probe],
                                    wanted, o.hookres, o.unhookres)} :
        /\ pxe_stack' = r.w.pxe_stack
        /\ state' = r.w.state
        /\ hooked' = r.w.hooked
        /\ last' = [Call("ensure") EXCEPT !.wanted = wanted,
                                          !.hookres = o.hookres,
                                          !.unhookres = o.unhookres,
                                          !.probe = o.probe,
                                          !.ret = r.ret,
                                          !.trace = r.w.trace,
                                          !.rets = r.w.rets]
        /\ prev' = Summary(last, state)

\* some caller runs ensure_pxe_state ( wanted )
call_ensure_pxe_state ==
    \E wanted \in States :
      \E o \in ProviderOutcomes(wanted) : do_ensure_pxe_state(wanted, o)

\* the PXE client runs pxe_api_call ( opcode, any )
call_pxe_api_call ==
    \E opcode \in Opcodes, h \in HandlerBehaviours,
       status_in \in {PXENV_STATUS_SUCCESS, PXENV_STATUS_UNSUPPORTED} :
        \E r \in {pxe_api_call(World, opcode, status_in, h)} :
        /\ pxe_stack' = r.w.pxe_stack
        /\ state' = r.w.state
        /\ hooked' = r.w.hooked
        /\ last' = [Call("api") EXCEPT !.wanted = IF h.kind = "ensure"
                                                   THEN h.wanted ELSE -1,
                                       !.hookres = h.hookres,
                                       !.unhookres = h.unhookres,
                                       !.probe = h.probe,
                                       !.ret = r.ens_ret,
                                       !.trace = r.w.trace,
                                       !.rets = r.w.rets,
                                       !.opcode = opcode,
                                       !.status_in = status_in,
                                       !.entry_status = r.entry_status,
                                       !.wrote = r.wrote,
                                       !.handler = r.handler,
                                       !.handler_ret = r.handler_ret,
                                       !.handler_status = r.handler_status,
                                       !.Status = r.Status,
                                       !.exit = r.ret,
                                       !.ens_ret = r.ens_ret]
        /\ prev' = NoPrev

Next ==
    \/ install_pxe_stack
    \/ remove_pxe_stack
    \/ call_ensure_pxe_state
    \/ call_pxe_api_call

Spec == Init /\ [][Next]_vars

\* the stack routines alone, without the dispatcher
NextStack ==
    \/ install_pxe_stack
    \/ remove_pxe_stack
    \/ call_ensure_pxe_state

SpecStack == Init /\ [][NextStack]_vars

\* provider outcomes when hook_pxe_stack / unhook_pxe_stack may report
\* success with any non-zero int
IntOutcomes(wanted) ==
    [hookres : IF wanted >= MIDWAY THEN 0..MaxStepResult ELSE {1},
     unhookres : IF wanted < MIDWAY THEN 0..MaxStepResult ELSE {1},
     probe : {1}]

call_ensure_pxe_state_int ==
    \E wanted \in States :
      \E o \in IntOutcomes(wanted) : do_ensure_pxe_state(wanted, o)

NextInt ==
    \/ install_pxe_stack
    \/ remove_pxe_stack
    \/ call_ensure_pxe_state_int

SpecInt == Init /\ [][NextInt]_vars

TypeOK ==
    /\ pxe_stack \in {NULL, STACK}
    /\ state \in States
    /\ hooked \in BOOLEAN
    /\ last.op \in {"none", "install", "remove", "ensure", "api"}
    /\ prev.op \in {"none", "ensure"}

\* ------------------------------------------------------------------------
\* Properties
\* ------------------------------------------------------------------------

DirectEnsure == last.op = "ensure"
Has(ev) == \E i \in 1..Len(last.trace) : last.trace[i] = ev
\* hook_pxe_stack had to install the vectors and could not
HookFailed == last.wanted >= MIDWAY /\ last.pre_state < MIDWAY /\ last.hookres = 0
Between(a, x, b) == (a <= x /\ x <= b) \/ (b <= x /\ x <= a)

\* C1: whenever a stack exists and its state is READY (NIC initialised), the
\* interrupt vectors are hooked.
C1_ReadyImpliesHooked ==
    (pxe_stack = STACK /\ state = READY) => hooked

\* C2: after a direct ensure_pxe_state(wanted) that returned non-zero, the
\* stack's state is exactly wanted.
C2_RankConvergence ==
    (DirectEnsure /\ last.ret # 0) => (pxe_stack = STACK /\ state = last.wanted)

\* a successful tear-down from READY all the way to CAN_UNLOAD
C2_Witness ==
    /\ DirectEnsure /\ last.ret = 1
    /\ last.pre_state = READY /\ last.wanted = CAN_UNLOAD
    /\ state = CAN_UNLOAD

\* C3 as stated: an ensure_pxe_state that returned 0 left the stack pointer
\* and the state as they were before the call.
C3_FailedLeavesStateUnchanged ==
    (DirectEnsure /\ last.ret = 0) =>
        (pxe_stack = last.pre_stack /\ state = last.pre_state)

\* C3 amended: an ensure_pxe_state that returned 0 with no stack changed
\* nothing; one that returned 0 because a step failed left the state
\* somewhere from the state before the call to wanted, both included (the
\* steps that did not fail still took effect), never further from wanted.
C3_FailedNeverMovesAway ==
    (DirectEnsure /\ last.ret = 0) =>
        /\ pxe_stack = last.pre_stack
        /\ IF last.pre_stack = NULL
           THEN state = last.pre_state /\ hooked = last.pre_hooked
           ELSE Between(last.pre_state, state, last.wanted)

\* a failed call that moved the state: READY -> MIDWAY, the unhook failing
C3_Witness ==
    /\ DirectEnsure /\ last.ret = 0 /\ last.pre_stack = STACK
    /\ last.pre_state = READY /\ last.wanted = CAN_UNLOAD
    /\ state = MIDWAY

\* C4: with pxe_stack = NULL, ensure_pxe_state returns 0 for every wanted
\* state, enters none of the hook/unhook/NIC routines and changes nothing.
C4_NoStackGuard ==
    (DirectEnsure /\ last.pre_stack = NULL) =>
        /\ last.ret = 0
        /\ last.trace = <<>>
        /\ pxe_stack = NULL
        /\ state = last.pre_state
        /\ hooked = last.pre_hooked

C4_Witness ==
    DirectEnsure /\ last.pre_stack = NULL /\ last.wanted = READY /\ last.ret = 0

\* C5: with a stack present, a failing hook_pxe_stack does not stop the call:
\* the NIC step chosen by wanted (pxe_initialise_nic for READY,
\* pxe_shutdown_nic for MIDWAY) is still entered after it, and the call
\* returns 0.
C5_UnconditionalSteps ==
    (DirectEnsure /\ last.pre_stack = STACK /\ HookFailed) =>
        /\ last.ret = 0
        /\ last.trace[1] = "hook_pxe_stack"
        /\ Len(last.trace) >= 2
        /\ last.trace[2] = IF last.wanted = READY THEN "pxe_initialise_nic"
                                                  ELSE "pxe_shutdown_nic"

C5_Witness ==
    /\ DirectEnsure /\ last.pre_stack = STACK /\ HookFailed
    /\ last.wanted = READY /\ Has("pxe_initialise_nic") /\ last.ret = 0

\* C6: two direct ensure_pxe_state(s) calls in a row, stack present and the
\* providers succeeding in both, both return 1 and the state after the
\* second is the state after the first.
C6_Idempotence ==
    (/\ DirectEnsure /\ prev.op = "ensure"
     /\ last.wanted = prev.wanted
     /\ last.pre_stack = STACK
     /\ prev.ok /\ last.hookres = 1 /\ last.unhookres = 1) =>
        (prev.ret = 1 /\ last.ret = 1 /\ state = prev.state)

C6_Witness ==
    /\ DirectEnsure /\ prev.op = "ensure" /\ last.pre_stack = STACK
    /\ prev.wanted = READY /\ last.wanted = READY
    /\ prev.ok /\ last.hookres = 1 /\ last.unhookres = 1
    /\ last.ret = 1 /\ state = READY

\* C7: ensure_pxe_state(CAN_UNLOAD) on a stack already in CAN_UNLOAD returns
\* 1, leaves the state CAN_UNLOAD, and neither disables the device or its
\* interrupts nor restores the vectors again.
C7_TeardownNoop ==
    (/\ DirectEnsure /\ last.pre_stack = STACK
     /\ last.pre_state = CAN_UNLOAD /\ last.wanted = CAN_UNLOAD) =>
        /\ last.ret = 1
        /\ state = CAN_UNLOAD
        /\ hooked = last.pre_hooked
        /\ ~Has("eth_irq_DISABLE")
        /\ ~Has("disable_dev")
        /\ ~Has("remove_vectors")

\* the second of two tear-downs in a row, the first having reached CAN_UNLOAD
C7_Witness ==
    /\ DirectEnsure /\ last.pre_stack = STACK
    /\ prev.op = "ensure" /\ prev.wanted = CAN_UNLOAD /\ prev.ret = 1
    /\ prev.state = CAN_UNLOAD
    /\ last.wanted = CAN_UNLOAD /\ last.ret = 1

Registered == last.op = "api" /\ last.opcode \in RegisteredOpcodes

\* C8: for every opcode of the switch, the routine handed off to finds
\* Status = PXENV_STATUS_FAILURE on entry, and if it never writes Status,
\* Status is PXENV_STATUS_FAILURE when pxe_api_call returns.
C8_DefaultStatus ==
    Registered =>
        /\ last.handler = HandlerFor(last.opcode)
        /\ last.entry_status = PXENV_STATUS_FAILURE
        /\ (~last.wrote => last.Status = PXENV_STATUS_FAILURE)

C8_Witness ==
    /\ Registered /\ last.status_in = PXENV_STATUS_SUCCESS
    /\ ~last.wrote /\ last.Status = PXENV_STATUS_FAILURE

\* C9 as stated: for every opcode of the switch, if the routine never writes
\* Status, pxe_api_call does not return PXENV_EXIT_SUCCESS.
C9_NoWriteNeverSuccess ==
    (Registered /\ ~last.wrote) => last.exit # PXENV_EXIT_SUCCESS

\* C9 amended: for every opcode of the switch, if the routine never writes
\* Status, pxe_api_call returns PXENV_EXIT_SUCCESS exactly when the routine
\* itself returned PXENV_EXIT_SUCCESS: a routine's non-SUCCESS exit is never
\* turned into SUCCESS, and a SUCCESS exit is passed on as it is.
C9_NoWriteExitFollowsHandler ==
    (Registered /\ ~last.wrote) =>
        (last.exit = PXENV_EXIT_SUCCESS <=> last.handler_ret = PXENV_EXIT_SUCCESS)

C9_Witness ==
    /\ Registered /\ ~last.wrote
    /\ last.handler_ret = EXIT_OTHER /\ last.exit # PXENV_EXIT_SUCCESS

\* C10: for every opcode outside the switch, pxe_api_call returns
\* PXENV_EXIT_FAILURE with Status = PXENV_STATUS_UNSUPPORTED, hands off to no
\* routine, and so enters no stack routine and changes no state.
C10_UnknownOpcode ==
    (last.op = "api" /\ last.opcode \notin RegisteredOpcodes) =>
        /\ last.exit = PXENV_EXIT_FAILURE
        /\ last.Status = PXENV_STATUS_UNSUPPORTED
        /\ last.handler = NoHandler
        /\ last.trace = <<>>
        /\ pxe_stack = last.pre_stack
        /\ state = last.pre_state
        /\ hooked = last.pre_hooked

C10_Witness ==
    /\ last.op = "api" /\ last.opcode \in UnknownOpcodes
    /\ last.status_in = PXENV_STATUS_SUCCESS
    /\ last.Status = PXENV_STATUS_UNSUPPORTED
    /\ last.pre_stack = STACK /\ last.pre_state = READY

\* every provider consulted by the call reported success
ProvidersOk == last.hookres = 1 /\ last.unhookres = 1 /\ last.probe = 1

\* C11: with a stack present and the providers succeeding, one direct
\* ensure_pxe_state(wanted) returns 1 and ends in wanted, from whichever of
\* the three states and for whichever wanted; asked for READY from
\* CAN_UNLOAD it leaves the vectors hooked and the state READY.
C11_AnyToAnyInOneCall ==
    (DirectEnsure /\ last.pre_stack = STACK /\ ProvidersOk) =>
        /\ last.ret = 1
        /\ state = last.wanted
        /\ (last.wanted = READY /\ last.pre_state = CAN_UNLOAD) =>
               (hooked /\ Has("install_vectors") /\ Has("pxe_initialise_nic"))

\* START_UNDI followed at once by a call that needs READY
C11_Witness ==
    /\ DirectEnsure /\ last.pre_stack = STACK /\ ProvidersOk
    /\ last.pre_state = CAN_UNLOAD /\ last.wanted = READY
    /\ last.ret = 1 /\ state = READY /\ hooked

\* the routine handed off to called ensure_pxe_state and got 0
HandlerEnsureFailed == Registered /\ last.ens_ret = 0

\* C12: when the ensure_pxe_state call of the routine handed off to returns
\* 0, pxe_api_call ends with Status = PXENV_STATUS_UNDI_INVALID_STATE and
\* exit PXENV_EXIT_FAILURE, and the routine has not gone on to use the
\* hardware.
C12_InvalidStateReported ==
    HandlerEnsureFailed =>
        /\ last.Status = PXENV_STATUS_UNDI_INVALID_STATE
        /\ last.exit = PXENV_EXIT_FAILURE
        /\ ~Has("use_hardware")

\* a provider step failed under a handler that needs READY
C12_Witness ==
    /\ HandlerEnsureFailed /\ last.pre_stack = STACK
    /\ last.wanted = READY /\ last.hookres = 0
    /\ last.Status = PXENV_STATUS_UNDI_INVALID_STATE

\* a retry of ensure_pxe_state(b) on an existing stack, providers succeeding
Retry(b) ==
    /\ pxe_stack = STACK
    /\ do_ensure_pxe_state(b, [hookres |-> 1, unhookres |-> 1, probe |-> 1])

Reached(b) ==
    DirectEnsure /\ last.wanted = b /\ last.ret = 1 /\ state = b

\* C13: for every b, if the caller keeps retrying ensure_pxe_state(b) with
\* the providers succeeding, then from any reachable state with a stack,
\* whatever failed before, either the stack is taken away or a call returns
\* 1 with the state equal to b.
C13_SafeRetry ==
    \A b \in States :
        WF_vars(Retry(b)) =>
            ((pxe_stack = STACK) ~> (pxe_stack = NULL \/ Reached(b)))

\* a retry that succeeded right after a call in which a step failed
C13_Witness ==
    /\ DirectEnsure /\ last.pre_stack = STACK /\ ProvidersOk
    /\ prev.op = "ensure" /\ prev.ret = 0 /\ prev.wanted = last.wanted
    /\ last.ret = 1 /\ state = last.wanted

StepRets == {last.rets[i].ret : i \in 1..Len(last.rets)}

RECURSIVE AndAll(_, _)
AndAll(acc, s) ==
    IF s = <<>> THEN acc ELSE AndAll(BitAnd(acc, Head(s).ret), Tail(s))

\* C14 as stated: with a stack present, ensure_pxe_state returns non-zero
\* exactly when every step it ran returned non-zero (any non-zero result
\* being a success).
C14_TrueIffAllNonZero ==
    (DirectEnsure /\ last.pre_stack = STACK) =>
        (last.ret # 0 <=> \A x \in StepRets : x # 0)

\* C14 amended: with a stack present, ensure_pxe_state returns 1 & r1 & r2
\* over the results of the steps it ran; when those results are all 0 or 1
\* it returns 1 exactly when every step returned 1 and 0 when at least one
\* returned 0.
C14_BitwiseAndOfResults ==
    (DirectEnsure /\ last.pre_stack = STACK) =>
        /\ last.ret = AndAll(1, last.rets)
        /\ (StepRets \subseteq {0, 1}) =>
               /\ last.ret \in {0, 1}
               /\ (last.ret = 1 <=> \A x \in StepRets : x = 1)
               /\ (last.ret = 0 <=> \E x \in StepRets : x = 0)

\* one step failed, the step after it succeeded
C14_Witness ==
    /\ DirectEnsure /\ last.pre_stack = STACK /\ last.wanted = READY
    /\ Len(last.rets) = 2
    /\ last.rets[1].ret = 0 /\ last.rets[2].ret = 1
    /\ last.ret = 0

IsRoutine(ev) ==
    ev \in {"hook_pxe_stack", "pxe_initialise_nic", "pxe_shutdown_nic",
            "unhook_pxe_stack"}
Routines == SelectSeq(last.trace, IsRoutine)
Count(ev) == Cardinality({i \in 1..Len(last.trace) : last.trace[i] = ev})
Pos(ev) == CHOOSE i \in 1..Len(last.trace) : last.trace[i] = ev

\* C15: with a stack present, the routines ensure_pxe_state enters are
\* fixed by wanted alone: READY -> hook_pxe_stack, pxe_initialise_nic;
\* MIDWAY -> hook_pxe_stack, pxe_shutdown_nic; CAN_UNLOAD ->
\* pxe_shutdown_nic, unhook_pxe_stack; each once, whatever the state before
\* and whatever the earlier steps returned.
C15_StepSelection ==
    (DirectEnsure /\ last.pre_stack = STACK) =>
        Routines = CASE last.wanted = READY ->
                          <<"hook_pxe_stack", "pxe_initialise_nic">>
                     [] last.wanted = MIDWAY ->
                          <<"hook_pxe_stack", "pxe_shutdown_nic">>
                     [] last.wanted = CAN_UNLOAD ->
                          <<"pxe_shutdown_nic", "unhook_pxe_stack">>

\* MIDWAY asked for after a failed hook: the shutdown is entered all the same
C15_Witness ==
    /\ DirectEnsure /\ last.pre_stack = STACK
    /\ last.wanted = MIDWAY /\ HookFailed
    /\ Routines = <<"hook_pxe_stack", "pxe_shutdown_nic">>

\* C16: within one ensure_pxe_state call, hook_pxe_stack is over (vectors
\* installed, if it installed them) before the NIC routine is entered, and
\* pxe_shutdown_nic is over (interrupts and device disabled, if it disabled
\* them) before unhook_pxe_stack is entered; unhook_pxe_stack never starts
\* on a stack that is still READY.
C16_StepOrdering ==
    (DirectEnsure /\ last.pre_stack = STACK) =>
        /\ Has("hook_pxe_stack") =>
              \E n \in {"pxe_initialise_nic", "pxe_shutdown_nic"} :
                 /\ Has(n)
                 /\ Pos("hook_pxe_stack") < Pos(n)
                 /\ Has("install_vectors") => Pos("install_vectors") < Pos(n)
        /\ Has("unhook_pxe_stack") =>
              /\ Has("pxe_shutdown_nic")
              /\ Pos("pxe_shutdown_nic") < Pos("unhook_pxe_stack")
              /\ Has("disable_dev") =>
                    /\ Pos("eth_irq_DISABLE") < Pos("disable_dev")
                    /\ Pos("disable_dev") < Pos("unhook_pxe_stack")
              /\ Has("remove_vectors") =>
                    Pos("unhook_pxe_stack") < Pos("remove_vectors")
        /\ \A i \in 1..Len(last.rets) :
              last.rets[i].step = "unhook_pxe_stack" =>
                  last.rets[i].before <= MIDWAY

\* a full tear-down from READY
C16_Witness ==
    /\ DirectEnsure /\ last.pre_stack = STACK
    /\ last.pre_state = READY /\ last.wanted = CAN_UNLOAD
    /\ last.trace = <<"pxe_shutdown_nic", "eth_irq_DISABLE", "disable_dev",
                      "unhook_pxe_stack", "remove_vectors">>

\* C17: pxe_initialise_nic on a READY stack returns 1 and changes nothing;
\* otherwise the outcome is the probe's: the state becomes READY and the
\* result is 1 only if the probe worked, and if it did not the state stays
\* as it was and the result is 0.
C17_BringUpFollowsProbe ==
    \A i \in 1..Len(last.rets) :
        last.rets[i].step = "pxe_initialise_nic" =>
            IF last.rets[i].before >= READY
            THEN last.rets[i].ret = 1 /\ last.rets[i].after = last.rets[i].before
            ELSE IF last.probe # 0
                 THEN last.rets[i].ret = 1 /\ last.rets[i].after = READY
                 ELSE last.rets[i].ret = 0
                      /\ last.rets[i].after = last.rets[i].before

\* C18: pxe_shutdown_nic always returns 1; on a MIDWAY or CAN_UNLOAD stack
\* it leaves the state as it is and touches no device; on a READY stack it
\* disables the interrupts, then the device, once each and in that order,
\* and leaves the state MIDWAY.
C18_TearDown ==
    \A i \in 1..Len(last.rets) :
        last.rets[i].step = "pxe_shutdown_nic" =>
            /\ last.rets[i].ret = 1
            /\ IF last.rets[i].before <= MIDWAY
               THEN /\ last.rets[i].after = last.rets[i].before
                    /\ Count("eth_irq_DISABLE") = 0
                    /\ Count("disable_dev") = 0
               ELSE /\ last.rets[i].after = MIDWAY
                    /\ Count("eth_irq_DISABLE") = 1
                    /\ Count("disable_dev") = 1
                    /\ Pos("eth_irq_DISABLE") = Pos("pxe_shutdown_nic") + 1
                    /\ Pos("disable_dev") = Pos("pxe_shutdown_nic") + 2

\* a shutdown of a READY stack, asked for MIDWAY
C18_Witness ==
    /\ DirectEnsure /\ last.wanted = MIDWAY /\ last.pre_state = READY
    /\ \E i \in 1..Len(last.rets) :
          /\ last.rets[i].step = "pxe_shutdown_nic"
          /\ last.rets[i].before = READY /\ last.rets[i].after = MIDWAY
    /\ Has("disable_dev") /\ state = MIDWAY

HandlerNames == {p[2] : p \in Registry}
IsHandler(ev) == ev \in HandlerNames
HandlersRun == SelectSeq(last.trace, IsHandler)

\* C19: for every opcode of the switch, pxe_api_call runs exactly one
\* routine, the one of that opcode's arm, once; it returns that routine's
\* exit value as it is (PXENV_EXIT_SUCCESS, PXENV_EXIT_FAILURE or anything
\* else), and the Status left in the envelope is the one the routine left.
C19_DispatchRouting ==
    Registered =>
        /\ HandlersRun = <<HandlerFor(last.opcode)>>
        /\ last.trace[1] = last.handler
        /\ <<last.opcode, last.handler>> \in Registry
        /\ last.exit = last.handler_ret
        /\ last.Status = last.handler_status

\* an exit value that is neither SUCCESS nor FAILURE comes back unchanged
C19_Witness ==
    /\ Registered /\ last.opcode = "PXENV_UDP_READ"
    /\ last.handler = "pxenv_udp_read"
    /\ last.handler_ret = EXIT_OTHER /\ last.exit = EXIT_OTHER
    /\ last.wrote /\ last.Status = PXENV_STATUS_SUCCESS

\* the state moved only through the steps the call's rets list
StateFollowsSteps ==
    IF last.rets = <<>>
    THEN state = last.pre_state
    ELSE /\ last.rets[1].before = last.pre_state
         /\ last.rets[Len(last.rets)].after = state
         /\ \A i \in 1..(Len(last.rets) - 1) :
               last.rets[i + 1].before = last.rets[i].after

\* C20: neither pxe_api_call nor ensure_pxe_state makes or removes the
\* stack; across a call the state moves only through the steps of an
\* ensure_pxe_state made in it; a pxe_api_call whose routine makes no
\* ensure_pxe_state call, or that hits default:, leaves the state and the
\* vectors as they were.
C20_Frame ==
    (last.op = "api" \/ DirectEnsure) =>
        /\ pxe_stack = last.pre_stack
        /\ StateFollowsSteps
        /\ (last.op = "api" /\ last.ens_ret = -1) =>
               /\ last.rets = <<>>
               /\ state = last.pre_state
               /\ hooked = last.pre_hooked

\* a dispatch on a READY stack whose routine never calls ensure_pxe_state
C20_Witness ==
    /\ Registered /\ last.ens_ret = -1 /\ last.pre_stack = STACK
    /\ last.pre_state = READY /\ state = READY
    /\ last.trace = <<last.handler>>

====
